---- MODULE Spec2Model ----
(***************************************************************************)
(* The DNS message codec of app/dns/server.go: Packet.Serialize,           *)
(* Packet.Deserialize and their helpers, as a state machine.  A byte is a  *)
(* number in 0..255, a []byte and a string are sequences of bytes, Go's    *)
(* 0-based index i is the sequence index i+1.  From the idle state a       *)
(* caller makes one call on one input, carried through its steps:          *)
(*   mode "decode"      decodeDomainName(data, start)                      *)
(*   mode "encode"      encodeDomainName(inName), then decodeDomainName    *)
(*                      of its output from offset 0                        *)
(*   mode "deserialize" Deserialize(data); on success Serialize of the     *)
(*                      packet and Deserialize of the bytes written        *)
(*   mode "serialize"   Serialize of a packet holding a given header, then *)
(*                      Deserialize of the bytes written                   *)
(***************************************************************************)
EXTENDS Integers, Sequences, FiniteSets, TLC

VARIABLES
    mode,      \* which call the run makes
    pc,        \* position in the code
    data,      \* the buffer being decoded
    start,     \* decodeDomainName's offset argument
    inName,    \* encodeDomainName's argument
    enc,       \* encodeDomainName's result [buf, err]
    offset,    \* decodeDomainName: offset
    jumped,    \* decodeDomainName: jumped
    jumps,     \* decodeDomainName: jumps
    name,      \* decodeDomainName: the strings.Builder
    firstPtr,  \* offset of the first pointer met by the current call, -1 if none
    prefix,    \* the builder's contents when the first pointer was met
    ret,       \* decodeDomainName's results [name, offset, err]
    retpc,     \* where decodeDomainName returns to
    p,         \* the Packet
    off,       \* Deserialize: offset
    sect,      \* Deserialize: the record section being read
    idx,       \* Deserialize: the loop index i
    consumed,  \* entries read from the buffer, per section, by the current Deserialize
    err,       \* the error returned by the call that ended last ("" is nil)
    round,     \* 1: the first call, 2: Deserialize of Serialize's output
    p0,        \* the packet Serialize was given
    ser,       \* Serialize's results [buf, err, chunks]
    reads      \* the byte ranges <<lo, hi>> (hi exclusive) read by the last step

vars == <<mode, pc, data, start, inName, enc, offset, jumped, jumps, name, firstPtr,
          prefix, ret, retpc, p, off, sect, idx, consumed, err, round, p0, ser, reads>>

(***************************************************************************)
(* Bounds of the inputs.                                                   *)
(***************************************************************************)
MaxBufLen == 5
MaxChain == 7
MaxNameLen == 3
MaxRecords == 3

(***************************************************************************)
(* Program constants.                                                      *)
(***************************************************************************)
maxJumps == 5
MaxLabelLen == 63
HeaderLen == 12

Dot == 46

Nil == ""
ErrTooShort == "packet too short"
ErrOverflow == "buffer overflow"
ErrJumps == "too many jumps"
ErrLabel == "label too long"

(***************************************************************************)
(* Bytes, slices and big-endian integers.                                  *)
(***************************************************************************)
Byte(d, i) == d[i + 1]

Slice(d, lo, hi) == SubSeq(d, lo + 1, hi)

InBounds(d, r) == 0 <= r[1] /\ r[1] <= r[2] /\ r[2] <= Len(d)

Panics(d, rs) == \E r \in rs : ~InBounds(d, r)

Uint16(d, o) == Byte(d, o) * 256 + Byte(d, o + 1)

\* A uint32 is kept as its two 16-bit halves <<high, low>>: the value high * 65536 + low
\* does not fit the model checker's integers.
Uint32(d, o) == <<Uint16(d, o), Uint16(d, o + 2)>>

PutUint16(v) == <<(v \div 256) % 256, v % 256>>

PutUint32(v) == PutUint16(v[1]) \o PutUint16(v[2])

\* Bitwise or of two 16-bit words.
OrBits(x, y) ==
    LET bit(k) == IF (x \div (2 ^ k)) % 2 = 1 \/ (y \div (2 ^ k)) % 2 = 1 THEN 2 ^ k ELSE 0
    IN  bit(0) + bit(1) + bit(2) + bit(3) + bit(4) + bit(5) + bit(6) + bit(7) + bit(8)
        + bit(9) + bit(10) + bit(11) + bit(12) + bit(13) + bit(14) + bit(15)

Or(a, b) == CHOOSE r \in {OrBits(x, y) : x \in {a}, y \in {b}} : TRUE

Shl16(x, k) == (x * (2 ^ k)) % 65536

Bit(b, k) == IF b THEN 2 ^ k ELSE 0

(***************************************************************************)
(* The header's flag word.                                                 *)
(***************************************************************************)
PackFlagsZ3(h) ==
    Or(Or(Or(Or(Or(Or(Or(Bit(h.QR, 15), Shl16(h.OpCode, 11)), Bit(h.AA, 10)),
       Bit(h.TC, 9)), Bit(h.RD, 8)), Bit(h.RA, 7)), Shl16(h.Z, 3)), h.ResponseCode)

PackFlags(h) ==
    Or(Or(Or(Or(Or(Or(Or(Bit(h.QR, 15), Shl16(h.OpCode, 11)), Bit(h.AA, 10)),
       Bit(h.TC, 9)), Bit(h.RD, 8)), Bit(h.RA, 7)), Shl16(h.Z, 4)), h.ResponseCode)

SerializeHeader(h) ==
    PutUint16(h.ID) \o PutUint16(PackFlags(h)) \o PutUint16(h.QuestionCount)
    \o PutUint16(h.AnswerCount) \o PutUint16(h.AuthorityCount)
    \o PutUint16(h.AdditionalCount)

DeserializeHeader(d) ==
    LET flags == Uint16(d, 2) IN
    [ID |-> Uint16(d, 0),
     QR |-> (flags \div 32768) % 2 = 1,
     OpCode |-> (flags \div 2048) % 16,
     AA |-> (flags \div 1024) % 2 = 1,
     TC |-> (flags \div 512) % 2 = 1,
     RD |-> (flags \div 256) % 2 = 1,
     RA |-> (flags \div 128) % 2 = 1,
     Z |-> (flags \div 16) % 8,
     ResponseCode |-> flags % 16,
     QuestionCount |-> Uint16(d, 4),
     AnswerCount |-> Uint16(d, 6),
     AuthorityCount |-> Uint16(d, 8),
     AdditionalCount |-> Uint16(d, 10)]

(***************************************************************************)
(* encodeDomainName.                                                       *)
(***************************************************************************)
RECURSIVE Split(_, _)
Split(s, cur) ==
    IF s = <<>> THEN <<cur>>
    ELSE IF Head(s) = Dot THEN <<cur>> \o Split(Tail(s), <<>>)
    ELSE Split(Tail(s), Append(cur, Head(s)))

LabelTooLong(label) == Len(label) > MaxLabelLen

RECURSIVE EncodeLabels(_, _)
EncodeLabels(labels, buf) ==
    IF labels = <<>> THEN [buf |-> Append(buf, 0), err |-> Nil]
    ELSE IF LabelTooLong(Head(labels)) THEN [buf |-> <<>>, err |-> ErrLabel]
    ELSE EncodeLabels(Tail(labels), Append(buf, Len(Head(labels))) \o Head(labels))

encodeDomainName(nm) == EncodeLabels(Split(nm, <<>>), <<>>)

(***************************************************************************)
(* serializeQuestion, serializeResourceRecord, Serialize.                  *)
(***************************************************************************)
serializeQuestion(q) ==
    LET n == encodeDomainName(q.Name) IN
    IF n.err # Nil THEN [buf |-> <<>>, err |-> n.err]
    ELSE [buf |-> n.buf \o PutUint16(q.Type) \o PutUint16(q.Class), err |-> Nil]

serializeResourceRecord(rr) ==
    LET n == encodeDomainName(rr.Name) IN
    IF n.err # Nil THEN [buf |-> <<>>, err |-> n.err]
    ELSE [buf |-> n.buf \o PutUint16(rr.Type) \o PutUint16(rr.Class)
                  \o PutUint32(rr.TTL) \o PutUint16(rr.RDLength) \o rr.RData,
          err |-> Nil]

RECURSIVE Concat(_)
Concat(ss) == IF ss = <<>> THEN <<>> ELSE Head(ss) \o Concat(Tail(ss))

Serialize(pk) ==
    LET q == serializeQuestion(pk.Question)
        rrs == pk.Answer \o pk.Authority \o pk.Additional
        out == [i \in 1..Len(rrs) |-> serializeResourceRecord(rrs[i])]
        bad == {i \in 1..Len(rrs) : out[i].err # Nil}
        chunk(s) == [i \in 1..Len(pk[s]) |-> serializeResourceRecord(pk[s][i]).buf]
    IN  IF q.err # Nil THEN [buf |-> <<>>, err |-> q.err, chunks |-> <<>>]
        ELSE IF bad # {}
        THEN [buf |-> <<>>, err |-> out[CHOOSE i \in bad : \A j \in bad : i <= j].err,
              chunks |-> <<>>]
        ELSE [buf |-> SerializeHeader(pk.Header) \o q.buf
                      \o Concat([i \in 1..Len(rrs) |-> out[i].buf]),
              err |-> Nil,
              chunks |-> [s \in {"Answer", "Authority", "Additional"} |-> chunk(s)]]

(***************************************************************************)
(* Zero values.                                                            *)
(***************************************************************************)
ZeroHeader ==
    [ID |-> 0, QR |-> FALSE, OpCode |-> 0, AA |-> FALSE, TC |-> FALSE, RD |-> FALSE,
     RA |-> FALSE, Z |-> 0, ResponseCode |-> 0, QuestionCount |-> 0, AnswerCount |-> 0,
     AuthorityCount |-> 0, AdditionalCount |-> 0]

ZeroQuestion == [Name |-> <<>>, Type |-> 0, Class |-> 0]

ZeroRR ==
    [Name |-> <<>>, Type |-> 0, Class |-> 0, TTL |-> <<0, 0>>, RDLength |-> 0, RData |-> <<>>]

ZeroPacket ==
    [Header |-> ZeroHeader, Question |-> ZeroQuestion, Answer |-> <<>>,
     Authority |-> <<>>, Additional |-> <<>>]

ZeroRet == [name |-> <<>>, offset |-> 0, err |-> Nil]

ZeroSer == [buf |-> <<>>, err |-> Nil, chunks |-> <<>>]

ZeroConsumed == [Question |-> 0, Answer |-> 0, Authority |-> 0, Additional |-> 0]

MakeRecords(n) == [i \in 1..n |-> ZeroRR]

Count(h, s) ==
    CASE s = "Answer" -> h.AnswerCount
      [] s = "Authority" -> h.AuthorityCount
      [] s = "Additional" -> h.AdditionalCount

NextSection(s) == IF s = "Answer" THEN "Authority" ELSE "Additional"

(***************************************************************************)
(* The inputs.                                                             *)
(***************************************************************************)
Alphabet == {0, 1, 97, 192}

Rep(b, n) == [i \in 1..n |-> b]

Bufs == UNION {[1..n -> Alphabet] : n \in 0..MaxBufLen}

\* A name at offset 0 and n pointers after it, each to the one before it.
ChainBuf(n) ==
    <<1, 97, 0>> \o Concat([k \in 1..n |-> <<192, IF k = 1 THEN 0 ELSE 2 * k - 1>>])

DecodeInputs ==
    {[data |-> b, start |-> s] : b \in Bufs, s \in 0..MaxBufLen}
    \cup {[data |-> ChainBuf(n), start |-> s] : n \in 0..MaxChain, s \in 0..(2 * MaxChain + 3)}

EncodeInputs ==
    UNION {[1..n -> {97, Dot}] : n \in 0..MaxNameLen}
    \cup {Rep(97, MaxLabelLen), Rep(97, MaxLabelLen + 1)}

Hdr(qd, an, ns, ar) ==
    <<18, 52, 129, 128>> \o PutUint16(qd) \o PutUint16(an) \o PutUint16(ns) \o PutUint16(ar)

QFixed == <<0, 1, 0, 1>>

RRBytes(nm, rdlen, rdata) ==
    nm \o <<0, 1, 0, 1, 0, 0, 0, 60>> \o PutUint16(rdlen) \o rdata

RRChoices ==
    {RRBytes(<<1, 97, 0>>, 1, <<7>>), RRBytes(<<192, 12>>, 0, <<>>),
     RRBytes(<<0>>, 2, <<1, 2>>)}

PacketBufs ==
    {Hdr(qd, an, ns, ar) \o qn \o QFixed \o Concat(rs) :
        qd \in 0..1, an \in 0..2, ns \in 0..1, ar \in 0..1,
        qn \in {<<0>>, <<1, 97, 0>>},
        rs \in UNION {[1..k -> RRChoices] : k \in 0..MaxRecords}}

FullBuf == Hdr(1, 1, 0, 0) \o <<1, 97, 0>> \o QFixed \o RRBytes(<<1, 98, 192, 12>>, 2, <<1, 2>>)

TruncatedBufs == {SubSeq(FullBuf, 1, n) : n \in 0..Len(FullBuf)}

LongLabelBuf ==
    Hdr(1, 0, 0, 0) \o <<MaxLabelLen + 1>> \o Rep(97, MaxLabelLen + 1) \o <<0>> \o QFixed

DeserializeInputs == PacketBufs \cup TruncatedBufs \cup {LongLabelBuf}

HeaderCounts == {<<1, 0, 0, 0>>, <<258, 1, 2, 3>>}

SerializeInputs ==
    {[Header |-> [ID |-> id, QR |-> qr, OpCode |-> op, AA |-> aa, TC |-> tc, RD |-> rd,
                  RA |-> ra, Z |-> z, ResponseCode |-> rc, QuestionCount |-> c[1],
                  AnswerCount |-> c[2], AuthorityCount |-> c[3], AdditionalCount |-> c[4]],
      Question |-> ZeroQuestion, Answer |-> <<>>, Authority |-> <<>>, Additional |-> <<>>] :
        id \in {4660, 65535}, qr \in BOOLEAN, op \in {0, 5, 15}, aa \in BOOLEAN,
        tc \in BOOLEAN, rd \in BOOLEAN, ra \in BOOLEAN, z \in {0, 5, 7},
        rc \in {0, 10, 15}, c \in HeaderCounts}

Init ==
    /\ mode = "idle" /\ pc = "idle"
    /\ data = <<>> /\ start = 0 /\ inName = <<>> /\ p = ZeroPacket
    /\ enc = [buf |-> <<>>, err |-> Nil]
    /\ offset = 0 /\ jumped = FALSE /\ jumps = 0 /\ name = <<>>
    /\ firstPtr = -1 /\ prefix = <<>>
    /\ ret = ZeroRet /\ retpc = "done"
    /\ off = 0 /\ sect = "Answer" /\ idx = 0 /\ consumed = ZeroConsumed
    /\ err = Nil /\ round = 1 /\ p0 = ZeroPacket /\ ser = ZeroSer /\ reads = {}

(***************************************************************************)
(* decodeDomainName, one action per way through one loop iteration.        *)
(***************************************************************************)
CallDecode(o, rpc) ==
    /\ start' = o /\ offset' = o /\ jumped' = FALSE /\ jumps' = 0 /\ name' = <<>>
    /\ firstPtr' = -1 /\ prefix' = <<>>
    /\ retpc' = rpc /\ pc' = "decode"

TooManyJumpsOff(j) == j >= maxJumps

TooManyJumps(j) == j > maxJumps

NextJumpsStuck(j) == j

NextJumps(j) == j + 1

OffsetOverflow(d, o) == o >= Len(d)

PointerOverflow(d, o) == o + 1 >= Len(d)

LabelOverflowOff(d, o, length) == o + length > Len(d) + 1

LabelOverflow(d, o, length) == o + length > Len(d)

IsPointer(length) == length \div 64 = 3

DecodeResult(nm) == IF Len(nm) > 0 THEN SubSeq(nm, 1, Len(nm) - 1) ELSE <<Dot>>

DecodeFail(e) ==
    /\ ret' = [name |-> <<>>, offset |-> 0, err |-> e]
    /\ pc' = retpc
    /\ UNCHANGED <<mode, data, start, inName, enc, offset, jumped, jumps, name, firstPtr,
                   prefix, retpc, p, off, sect, idx, consumed, err, round, p0, ser>>

DecodeTooManyJumps ==
    /\ pc = "decode"
    /\ TooManyJumps(jumps)
    /\ reads' = {}
    /\ DecodeFail(ErrJumps)

DecodeBufferOverflow ==
    /\ pc = "decode"
    /\ ~TooManyJumps(jumps)
    /\ OffsetOverflow(data, offset)
    /\ reads' = {}
    /\ DecodeFail(ErrOverflow)

\* The loop has passed both checks and reads the length byte.
AtLength == pc = "decode" /\ ~TooManyJumps(jumps) /\ ~OffsetOverflow(data, offset)

DecodeTerminator ==
    /\ AtLength
    /\ Byte(data, offset) = 0
    /\ reads' = {<<offset, offset + 1>>}
    /\ offset' = offset + 1
    /\ ret' = [name |-> DecodeResult(name), offset |-> offset + 1, err |-> Nil]
    /\ pc' = retpc
    /\ UNCHANGED <<mode, data, start, inName, enc, jumped, jumps, name, firstPtr,
                   prefix, retpc, p, off, sect, idx, consumed, err, round, p0, ser>>

DecodePointerOverflow ==
    /\ AtLength
    /\ IsPointer(Byte(data, offset))
    /\ PointerOverflow(data, offset)
    /\ reads' = {<<offset, offset + 1>>}
    /\ DecodeFail(ErrOverflow)

\* offset += 2 (when !jumped) is overwritten by offset = pointer.
DecodePointer ==
    /\ AtLength
    /\ IsPointer(Byte(data, offset))
    /\ ~PointerOverflow(data, offset)
    /\ reads' = {<<offset, offset + 1>>, <<offset, offset + 2>>}
    /\ offset' = Uint16(data, offset) % 16384
    /\ jumped' = TRUE
    /\ jumps' = NextJumps(jumps)
    /\ firstPtr' = IF jumped THEN firstPtr ELSE offset
    /\ prefix' = IF jumped THEN prefix ELSE name
    /\ UNCHANGED <<mode, pc, data, start, inName, enc, name, ret, retpc, p, off, sect,
                   idx, consumed, err, round, p0, ser>>

DecodeLabelOverflow ==
    /\ AtLength
    /\ Byte(data, offset) # 0
    /\ ~IsPointer(Byte(data, offset))
    /\ LabelOverflow(data, offset + 1, Byte(data, offset))
    /\ reads' = {<<offset, offset + 1>>}
    /\ DecodeFail(ErrOverflow)

DecodeLabel ==
    /\ AtLength
    /\ Byte(data, offset) # 0
    /\ ~IsPointer(Byte(data, offset))
    /\ ~LabelOverflow(data, offset + 1, Byte(data, offset))
    /\ LET length == Byte(data, offset) IN
       /\ reads' = {<<offset, offset + 1>>, <<offset + 1, offset + 1 + length>>}
       /\ IF Panics(data, reads')
          THEN pc' = "panic" /\ UNCHANGED <<offset, name>>
          ELSE /\ name' = Append(name \o Slice(data, offset + 1, offset + 1 + length), Dot)
               /\ offset' = offset + 1 + length
               /\ pc' = pc
    /\ UNCHANGED <<mode, data, start, inName, enc, jumped, jumps, firstPtr, prefix, ret,
                   retpc, p, off, sect, idx, consumed, err, round, p0, ser>>

\* A caller calls decodeDomainName(in.data, in.start).
StartDecode ==
    /\ pc = "idle"
    /\ \E in \in DecodeInputs :
          /\ data' = in.data
          /\ CallDecode(in.start, "done")
    /\ mode' = "decode"
    /\ reads' = {}
    /\ UNCHANGED <<inName, enc, ret, p, off, sect, idx, consumed, err, round, p0, ser>>

(***************************************************************************)
(* encodeDomainName, and decodeDomainName of what it wrote.                *)
(***************************************************************************)
EncodeFails ==
    /\ pc = "idle"
    /\ \E nm \in EncodeInputs :
          /\ encodeDomainName(nm).err # Nil
          /\ inName' = nm
          /\ enc' = encodeDomainName(nm)
    /\ mode' = "encode"
    /\ err' = enc'.err
    /\ pc' = "done"
    /\ UNCHANGED <<data, start, offset, jumped, jumps, name, firstPtr,
                   prefix, ret, retpc, p, off, sect, idx, consumed, round, p0, ser, reads>>

EncodeThenDecode ==
    /\ pc = "idle"
    /\ \E nm \in EncodeInputs :
          /\ encodeDomainName(nm).err = Nil
          /\ inName' = nm
          /\ enc' = encodeDomainName(nm)
    /\ mode' = "encode"
    /\ data' = enc'.buf
    /\ CallDecode(0, "done")
    /\ reads' = {}
    /\ UNCHANGED <<ret, p, off, sect, idx, consumed, err, round, p0, ser>>

(***************************************************************************)
(* The callers of Deserialize and Serialize.                               *)
(***************************************************************************)
StartDeserialize ==
    /\ pc = "idle"
    /\ data' \in DeserializeInputs
    /\ mode' = "deserialize"
    /\ pc' = "deserialize"
    /\ UNCHANGED <<start, inName, enc, offset, jumped, jumps, name, firstPtr, prefix, ret,
                   retpc, p, off, sect, idx, consumed, err, round, p0, ser, reads>>

StartSerialize ==
    /\ pc = "idle"
    /\ p' \in SerializeInputs
    /\ mode' = "serialize"
    /\ pc' = "serialize"
    /\ UNCHANGED <<data, start, inName, enc, offset, jumped, jumps, name, firstPtr, prefix,
                   ret, retpc, off, sect, idx, consumed, err, round, p0, ser, reads>>

(***************************************************************************)
(* Deserialize: the header, then deserializeQuestion.                      *)
(***************************************************************************)
DecodeVars == <<start, offset, jumped, jumps, name, firstPtr, prefix, ret, retpc>>

Finish(e) == err' = e /\ pc' = "done"

HeaderTooShort(d) == Len(d) < HeaderLen

DeserializeTooShort ==
    /\ pc = "deserialize"
    /\ HeaderTooShort(data)
    /\ Finish(ErrTooShort)
    /\ reads' = {}
    /\ UNCHANGED <<mode, data, inName, enc, p, off, sect, idx, consumed, round, p0, ser>>
    /\ UNCHANGED DecodeVars

DeserializeHeaderStep ==
    /\ pc = "deserialize"
    /\ ~HeaderTooShort(data)
    /\ reads' = {<<0, 2>>, <<2, 4>>, <<4, 6>>, <<6, 8>>, <<8, 10>>, <<10, 12>>}
    /\ IF Panics(data, reads')
       THEN pc' = "panic" /\ UNCHANGED <<p, off>> /\ UNCHANGED DecodeVars
       ELSE /\ p' = [p EXCEPT !.Header = DeserializeHeader(data)]
            /\ off' = HeaderLen
            /\ CallDecode(HeaderLen, "question")
            /\ UNCHANGED ret
    /\ UNCHANGED <<mode, data, inName, enc, sect, idx, consumed, err, round, p0, ser>>

QuestionNameError ==
    /\ pc = "question"
    /\ ret.err # Nil
    /\ p' = [p EXCEPT !.Question.Name = ret.name]
    /\ off' = 0
    /\ Finish(ret.err)
    /\ reads' = {}
    /\ UNCHANGED <<mode, data, inName, enc, sect, idx, consumed, round, p0, ser>>
    /\ UNCHANGED DecodeVars

FixedTooShort(d, o, n) == o + n > Len(d)

QuestionTooShort ==
    /\ pc = "question"
    /\ ret.err = Nil
    /\ FixedTooShort(data, ret.offset, 4)
    /\ p' = [p EXCEPT !.Question.Name = ret.name]
    /\ off' = 0
    /\ Finish(ErrTooShort)
    /\ reads' = {}
    /\ UNCHANGED <<mode, data, inName, enc, sect, idx, consumed, round, p0, ser>>
    /\ UNCHANGED DecodeVars

\* deserializeQuestion returns; Deserialize allocates p.Answer and enters its loop.
QuestionFixed ==
    /\ pc = "question"
    /\ ret.err = Nil
    /\ ~FixedTooShort(data, ret.offset, 4)
    /\ reads' = {<<ret.offset, ret.offset + 2>>, <<ret.offset + 2, ret.offset + 4>>}
    /\ IF Panics(data, reads')
       THEN pc' = "panic" /\ UNCHANGED <<p, off, sect, idx, consumed>>
       ELSE /\ p' = [p EXCEPT !.Question = [Name |-> ret.name,
                                             Type |-> Uint16(data, ret.offset),
                                             Class |-> Uint16(data, ret.offset + 2)],
                               !.Answer = MakeRecords(p.Header.AnswerCount)]
            /\ off' = ret.offset + 4
            /\ consumed' = [consumed EXCEPT !.Question = @ + 1]
            /\ sect' = "Answer"
            /\ idx' = 0
            /\ pc' = "loop"
    /\ UNCHANGED <<mode, data, inName, enc, err, round, p0, ser>>
    /\ UNCHANGED DecodeVars

(***************************************************************************)
(* Deserialize: the three record loops, and deserializeResourceRecord.     *)
(***************************************************************************)
RecordCall ==
    /\ pc = "loop"
    /\ idx < Count(p.Header, sect)
    /\ CallDecode(off, "rr")
    /\ reads' = {}
    /\ UNCHANGED <<mode, data, inName, enc, ret, p, off, sect, idx, consumed, err, round,
                   p0, ser>>

SectionEnd ==
    /\ pc = "loop"
    /\ idx >= Count(p.Header, sect)
    /\ sect # "Additional"
    /\ sect' = NextSection(sect)
    /\ p' = [p EXCEPT ![sect'] = MakeRecords(Count(p.Header, sect'))]
    /\ idx' = 0
    /\ reads' = {}
    /\ UNCHANGED <<mode, pc, data, inName, enc, off, consumed, err, round, p0, ser>>
    /\ UNCHANGED DecodeVars

DeserializeReturn ==
    /\ pc = "loop"
    /\ idx >= Count(p.Header, sect)
    /\ sect = "Additional"
    /\ err' = Nil
    /\ pc' = IF mode = "deserialize" /\ round = 1 THEN "serialize" ELSE "done"
    /\ reads' = {}
    /\ UNCHANGED <<mode, data, inName, enc, p, off, sect, idx, consumed, round, p0, ser>>
    /\ UNCHANGED DecodeVars

RecordNameError ==
    /\ pc = "rr"
    /\ ret.err # Nil
    /\ p' = [p EXCEPT ![sect][idx + 1].Name = ret.name]
    /\ off' = 0
    /\ Finish(ret.err)
    /\ reads' = {}
    /\ UNCHANGED <<mode, data, inName, enc, sect, idx, consumed, round, p0, ser>>
    /\ UNCHANGED DecodeVars

RecordTooShort ==
    /\ pc = "rr"
    /\ ret.err = Nil
    /\ FixedTooShort(data, ret.offset, 10)
    /\ p' = [p EXCEPT ![sect][idx + 1].Name = ret.name]
    /\ off' = 0
    /\ Finish(ErrTooShort)
    /\ reads' = {}
    /\ UNCHANGED <<mode, data, inName, enc, sect, idx, consumed, round, p0, ser>>
    /\ UNCHANGED DecodeVars

FixedReads(o) == {<<o, o + 2>>, <<o + 2, o + 4>>, <<o + 4, o + 8>>, <<o + 8, o + 10>>}

RecordFields(d, o, nm) ==
    [Name |-> nm, Type |-> Uint16(d, o), Class |-> Uint16(d, o + 2),
     TTL |-> Uint32(d, o + 4), RDLength |-> Uint16(d, o + 8), RData |-> <<>>]

RDataTooShort(d, o, rdlength) == o + rdlength > Len(d)

RDataEndShort(o, rdlength) == IF rdlength > 0 THEN o + rdlength - 1 ELSE o

RDataEnd(o, rdlength) == o + rdlength

RecordRDataTooShort ==
    /\ pc = "rr"
    /\ ret.err = Nil
    /\ ~FixedTooShort(data, ret.offset, 10)
    /\ RDataTooShort(data, ret.offset + 10, Uint16(data, ret.offset + 8))
    /\ reads' = FixedReads(ret.offset)
    /\ p' = [p EXCEPT ![sect][idx + 1] = RecordFields(data, ret.offset, ret.name)]
    /\ off' = 0
    /\ Finish(ErrTooShort)
    /\ UNCHANGED <<mode, data, inName, enc, sect, idx, consumed, round, p0, ser>>
    /\ UNCHANGED DecodeVars

RecordFixed ==
    /\ pc = "rr"
    /\ ret.err = Nil
    /\ ~FixedTooShort(data, ret.offset, 10)
    /\ ~RDataTooShort(data, ret.offset + 10, Uint16(data, ret.offset + 8))
    /\ LET rr == RecordFields(data, ret.offset, ret.name)
           lo == ret.offset + 10
       IN  /\ reads' = FixedReads(ret.offset) \cup {<<lo, RDataEnd(lo, rr.RDLength)>>}
           /\ IF Panics(data, reads')
              THEN pc' = "panic" /\ UNCHANGED <<p, off, idx, consumed>>
              ELSE /\ p' = [p EXCEPT ![sect][idx + 1] =
                               [rr EXCEPT !.RData = Slice(data, lo, RDataEnd(lo, rr.RDLength))]]
                   /\ off' = lo + rr.RDLength
                   /\ idx' = idx + 1
                   /\ consumed' = [consumed EXCEPT ![sect] = @ + 1]
                   /\ pc' = "loop"
    /\ UNCHANGED <<mode, data, inName, enc, sect, err, round, p0, ser>>
    /\ UNCHANGED DecodeVars

(***************************************************************************)
(* Serialize, followed on success by Deserialize of the bytes written into *)
(* a fresh Packet.                                                         *)
(***************************************************************************)
SerializeFails ==
    /\ pc = "serialize"
    /\ Serialize(p).err # Nil
    /\ ser' = Serialize(p)
    /\ p0' = p
    /\ Finish(ser'.err)
    /\ reads' = {}
    /\ UNCHANGED <<mode, data, inName, enc, p, off, sect, idx, consumed, round>>
    /\ UNCHANGED DecodeVars

SerializeThenDeserialize ==
    /\ pc = "serialize"
    /\ Serialize(p).err = Nil
    /\ ser' = Serialize(p)
    /\ p0' = p
    /\ data' = ser'.buf
    /\ p' = ZeroPacket
    /\ consumed' = ZeroConsumed
    /\ off' = 0 /\ sect' = "Answer" /\ idx' = 0
    /\ round' = 2
    /\ pc' = "deserialize"
    /\ reads' = {}
    /\ UNCHANGED <<mode, inName, enc, err>>
    /\ UNCHANGED DecodeVars

Next ==
    \/ StartDecode
    \/ StartDeserialize
    \/ StartSerialize
    \/ EncodeFails
    \/ EncodeThenDecode
    \/ DecodeTooManyJumps
    \/ DecodeBufferOverflow
    \/ DecodeTerminator
    \/ DecodePointerOverflow
    \/ DecodePointer
    \/ DecodeLabelOverflow
    \/ DecodeLabel
    \/ DeserializeTooShort
    \/ DeserializeHeaderStep
    \/ QuestionNameError
    \/ QuestionTooShort
    \/ QuestionFixed
    \/ RecordCall
    \/ SectionEnd
    \/ DeserializeReturn
    \/ RecordNameError
    \/ RecordTooShort
    \/ RecordRDataTooShort
    \/ RecordFixed
    \/ SerializeFails
    \/ SerializeThenDeserialize

Spec == Init /\ [][Next]_vars

(***************************************************************************)
(* Where a run stands.                                                     *)
(***************************************************************************)
\* decodeDomainName has returned: ret, jumps, firstPtr and prefix are those of one call.
DecodeReturned == pc \in {"done", "question", "rr", "loop", "serialize", "deserialize"}

\* The last Deserialize returned nil.
DeserializeSucceeded ==
    \/ mode = "deserialize" /\ round = 1 /\ pc = "serialize"
    \/ round = 2 /\ pc = "done" /\ err = Nil

\* Serialize returned nil (its bytes are in ser.buf).
SerializeSucceeded == round = 2

AllRecords(pk) == pk.Answer \o pk.Authority \o pk.Additional

Sections == {"Answer", "Authority", "Additional"}

(***************************************************************************)
(* C1.  Whenever decodeDomainName met a compression pointer and succeeded, *)
(* the cursor it returns is the offset of the first pointer plus 2, however*)
(* many pointers were followed, and the name it returns starts with the    *)
(* labels read before that pointer.                                        *)
(***************************************************************************)
C1_ResumeAfterFirstPointer ==
    (DecodeReturned /\ firstPtr >= 0 /\ ret.err = Nil) =>
        /\ ret.offset = firstPtr + 2
        /\ Len(ret.name) >= Len(prefix) - 1
        /\ \A i \in 1..(Len(prefix) - 1) : ret.name[i] = prefix[i]

(***************************************************************************)
(* C2.  After every successful Deserialize each of the four header counts  *)
(* equals the number of entries read from the buffer for its section, the  *)
(* question count included; and Serialize of a decoded packet writes, for  *)
(* each section, as many entries as the count it writes in the header.     *)
(***************************************************************************)
C2_CountsMatchEntries ==
    /\ DeserializeSucceeded =>
          /\ p.Header.QuestionCount = consumed.Question
          /\ p.Header.AnswerCount = consumed.Answer
          /\ p.Header.AuthorityCount = consumed.Authority
          /\ p.Header.AdditionalCount = consumed.Additional
    /\ (mode = "deserialize" /\ SerializeSucceeded) =>
          /\ Uint16(ser.buf, 4) = 1
          /\ Uint16(ser.buf, 6) = Len(ser.chunks["Answer"])
          /\ Uint16(ser.buf, 8) = Len(ser.chunks["Authority"])
          /\ Uint16(ser.buf, 10) = Len(ser.chunks["Additional"])

C4_RootEncodesToOneZeroByte ==
    (mode = "encode" /\ inName = <<Dot>>) =>
        enc.err = Nil /\ enc.buf = <<0>>

WellFormedName(nm) ==
    \/ nm = <<Dot>>
    \/ \A i \in 1..Len(Split(nm, <<>>)) :
          Len(Split(nm, <<>>)[i]) >= 1 /\ Len(Split(nm, <<>>)[i]) <= 63

(***************************************************************************)
(* C5.  For the root name and for every name of labels of 1 to 63 bytes,   *)
(* decodeDomainName of encodeDomainName's output from offset 0 succeeds,   *)
(* returns the name and returns the length of the encoding as its cursor.  *)
(***************************************************************************)
C5_EncodeDecodeRoundTrip ==
    (mode = "encode" /\ pc = "done" /\ WellFormedName(inName)) =>
        /\ enc.err = Nil
        /\ ret.err = Nil
        /\ ret.name = inName
        /\ ret.offset = Len(enc.buf)

NoLongLabel(nm) == \A i \in 1..Len(Split(nm, <<>>)) : Len(Split(nm, <<>>)[i]) <= 63

Encodable(pk) ==
    /\ NoLongLabel(pk.Question.Name)
    /\ \A i \in 1..Len(AllRecords(pk)) : NoLongLabel(AllRecords(pk)[i].Name)

(***************************************************************************)
(* C6.  For every buffer on which Deserialize succeeds with packet p,      *)
(* Serialize(p) succeeds and Deserialize of its output succeeds with a     *)
(* packet equal to p.  Stated for the packets whose names have no label    *)
(* over 63 bytes, the ones encodeDomainName accepts.                       *)
(***************************************************************************)
C6_DecodeEncodeDecode ==
    (mode = "deserialize" /\ Encodable(p0)) =>
        /\ ser.err = Nil
        /\ (round = 2 /\ pc = "done") => (err = Nil /\ p = p0)

(***************************************************************************)
(* C7.  decodeDomainName returns the too-many-jumps error exactly when it  *)
(* has followed 6 pointers: a call that followed 5 or fewer never fails    *)
(* with it, and a chain of exactly 5 in-bounds pointers ending in a valid  *)
(* name decodes to that name.                                              *)
(***************************************************************************)
C7_JumpLimit ==
    /\ jumps <= 6
    /\ DecodeReturned =>
          /\ jumps >= 6 => ret.err = ErrJumps
          /\ ret.err = ErrJumps => jumps >= 6
    /\ (mode = "decode" /\ pc = "done" /\ data = ChainBuf(MaxChain)) =>
          \A k \in 1..MaxChain : start = 2 * k + 1 =>
             IF k <= 5 THEN ret.err = Nil /\ ret.name = <<97>> /\ jumps = k
             ELSE ret.err = ErrJumps

C7_Witness ==
    /\ mode = "decode" /\ pc = "done" /\ data = ChainBuf(MaxChain)
    /\ start = 11 /\ jumps = 5 /\ ret.err = Nil /\ ret.name = <<97>>

(***************************************************************************)
(* C8.  Every byte range a step of Deserialize or decodeDomainName reads   *)
(* lies within the buffer: no step indexes or slices out of bounds.        *)
(***************************************************************************)
C8_ReadsInBounds == pc # "panic" /\ ~Panics(data, reads)

C8_Witness ==
    /\ mode = "deserialize" /\ pc = "done" /\ err = ErrTooShort
    /\ round = 1 /\ consumed.Question = 1
    /\ reads = FixedReads(ret.offset)
    /\ ret.offset + 10 + p[sect][idx + 1].RDLength > Len(data)

\* Loop iterations decodeDomainName may still run: a pointer uses up one of the
\* seven values of jumps, a label moves offset toward the end of the buffer.
DecodeRank ==
    (6 - jumps) * (Len(data) + 1)
    + (IF offset > Len(data) THEN 0 ELSE Len(data) - offset) + 1

\* Records Deserialize has still to read, from the counts in the header.
RecordsLeft ==
    CASE pc = "deserialize" ->
            IF Len(data) < 12 THEN 0
            ELSE Uint16(data, 6) + Uint16(data, 8) + Uint16(data, 10)
      [] pc \in {"question"} \/ (pc = "decode" /\ retpc = "question") ->
            p.Header.AnswerCount + p.Header.AuthorityCount + p.Header.AdditionalCount
      [] pc \in {"loop", "rr"} \/ (pc = "decode" /\ retpc = "rr") ->
            (Count(p.Header, sect) - idx)
            + (IF sect = "Answer" THEN p.Header.AuthorityCount ELSE 0)
            + (IF sect # "Additional" THEN p.Header.AdditionalCount ELSE 0)
      [] OTHER -> 0

SectionsLeft ==
    CASE pc \in {"deserialize", "question"} \/ (pc = "decode" /\ retpc = "question") -> 3
      [] pc \in {"loop", "rr"} \/ (pc = "decode" /\ retpc = "rr") ->
            (IF sect = "Answer" THEN 2 ELSE IF sect = "Authority" THEN 1 ELSE 0)
      [] OTHER -> 0

Rank ==
    <<CASE pc = "done" -> 0 [] pc = "idle" -> 3 [] round = 2 -> 1 [] OTHER -> 2,
      RecordsLeft,
      SectionsLeft,
      CASE pc \in {"deserialize", "loop"} -> 3
        [] pc = "decode" -> 2
        [] pc \in {"question", "rr"} -> 1
        [] OTHER -> 0,
      IF pc = "decode" THEN DecodeRank ELSE 0>>

RECURSIVE LexLess(_, _)
LexLess(a, b) ==
    /\ a # <<>>
    /\ \/ Head(a) < Head(b)
       \/ Head(a) = Head(b) /\ LexLess(Tail(a), Tail(b))

RankInRange == \A i \in 1..5 : Rank[i] >= 0

(***************************************************************************)
(* C9.  Every call ends after a bounded number of steps, pointer cycles    *)
(* included: a rank in a well-founded (lexicographic) order drops at every *)
(* step of decodeDomainName and of Deserialize, and a call that has not    *)
(* returned always has a next step.                                        *)
(***************************************************************************)
C9_Terminates ==
    [][/\ LexLess(Rank', Rank)
       /\ RankInRange'
       /\ pc' = "done" \/ (ENABLED Next)']_vars

C9_Witness ==
    /\ mode = "decode" /\ pc = "done" /\ data = <<192, 0>> /\ start = 0
    /\ ret.err = ErrJumps

(***************************************************************************)
(* C10.  The header Deserialize reads from the 12 bytes Serialize wrote    *)
(* for a header with fields in range equals that header in all thirteen    *)
(* fields.                                                                 *)
(***************************************************************************)
C10_HeaderRoundTrip ==
    (round = 2 /\ pc # "deserialize") =>
        /\ p.Header = p0.Header
        /\ Len(ser.buf) >= 12
        /\ DeserializeHeader(SubSeq(ser.buf, 1, 12)) = p0.Header

C10_Witness ==
    /\ mode = "serialize" /\ round = 2 /\ pc = "done"
    /\ p0.Header.ID = 65535 /\ p0.Header.QR /\ p0.Header.OpCode = 5 /\ ~p0.Header.AA
    /\ p0.Header.TC /\ ~p0.Header.RD /\ p0.Header.RA /\ p0.Header.Z = 5
    /\ p0.Header.ResponseCode = 10 /\ p0.Header.QuestionCount = 258
    /\ p0.Header.AdditionalCount = 3
    /\ p.Header = p0.Header
====
